---- MODULE Spec2Model ----
(***************************************************************************)
(* Model of src/routes/snaps.js: the Snaps facade over an authenticated    *)
(* transport client.  Every public method is one "invoke" action that      *)
(* runs the method's synchronous part; every callback the facade hands to  *)
(* a collaborator (Request.postCustom, client.post, client.sendEvents,     *)
(* SKBlob.initWithData) is one "done" action that runs the callback body.  *)
(* Calls run concurrently in MaxCalls slots; the facade keeps no state of  *)
(* its own besides the client reference (snaps.js:25).                     *)
(***************************************************************************)
EXTENDS Integers, Sequences, FiniteSets, TLC

VARIABLES calls, idCounter

vars == <<calls, idCounter>>

\* ------------------------------------------------------------------ bounds
\* Number of facade calls that may be in flight together.
MaxCalls == 2
\* Longest snaps / times / secondsViewed array handed to markSnapsViewed.
MaxLen == 2

CallIds == 1..MaxCalls

\* ------------------------------------------------------- JavaScript values
Null == [t |-> "null"]
Undefined == [t |-> "undefined"]
EmptyString == [t |-> "string", s |-> ""]
EmptyObject == [t |-> "object", fields |-> "none"]
Err(name) == [t |-> "error", name |-> name]
Num(n) == [t |-> "int", v |-> n]

\* ToBoolean, as used by `if (err)`, `if (result)` and `!!x`.
Truthy(v) ==
    /\ v # Null
    /\ v # Undefined
    /\ v # EmptyString
    /\ v # Num(0)
    /\ v # [t |-> "boolean", v |-> FALSE]

\* A non-negative decimal number w2 * 2^32 + w1 * 2^16 + w0, with or without
\* a fractional part: what StringUtils.timestamp() can hand back.
Decimal(w2, w1, w0, frac) == [t |-> "decimal", w2 |-> w2, w1 |-> w1, w0 |-> w0, frac |-> frac]

\* `x | 0`: ToInt32 of x (truncate, keep the low 32 bits, read them signed).
BitOrZero(x) ==
    IF x.t = "int" THEN x
    ELSE IF x.t = "decimal"
         THEN Num(IF x.w1 >= 32768 THEN (x.w1 - 65536) * 65536 + x.w0
                                  ELSE x.w1 * 65536 + x.w0)
         ELSE Num(0)

IsInteger(v) == v.t = "int"

\* ---------------------------------------------------------- collaborators
\* The transport client the facade was constructed with (snaps.js:20-26).
Client ==
    [username |-> "alice",
     session |-> [countryCode |-> "US", addedFriendsTimestamp |-> Decimal(0, 1, 7, FALSE)],
     screenSize |-> [width |-> 640, height |-> 1136]]

\* The facade object after construction: only `client` is ever assigned.
Self == [client |-> Client]

\* Property read obj.f of a JavaScript object: undefined when absent.
GetField(obj, f) == IF f \in DOMAIN obj THEN obj[f] ELSE Undefined

\* ----------------------------------------------------------------- inputs
ImageBlob == [t |-> "SKBlob", isImage |-> TRUE, data |-> "png-bytes"]
NotABlob == [t |-> "Buffer", data |-> "raw-bytes"]
Blobs == {ImageBlob, NotABlob}

Durations == {-1, 0, 3}
Timers == {0, 3}
Recipients == <<"bob", "carol">>
SnapIds == {"s1", "s2"}
Snap(id) == [identifier |-> id]
Times == {Decimal(336, 50000, 1234, FALSE)}
SecondsViewed == {3}
\* The arrays handed to markSnapsViewed: the first n entries of these samples.
SampleSnaps(n) == [i \in 1..n |-> Snap(IF i % 2 = 1 THEN "s1" ELSE "s2")]
SampleTimes(n) == [i \in 1..n |-> Decimal(336, 50000, 1234 + i, FALSE)]
SampleSecondsViewed(n) == [i \in 1..n |-> 2 + i]
Timestamps == {Decimal(336, 50000, 1234, FALSE), Decimal(0, 2, 5, TRUE)}
Locations == {[lat |-> 1, lng |-> 2]}

\* What a collaborator may pass to a callback.
TransportErrors == {Err("ETIMEDOUT")}
Payloads == {[t |-> "object", fields |-> "payload"]}
Results == {Null, EmptyString, EmptyObject} \cup Payloads

\* ------------------------------------------------------------ call record
Pending == [kind |-> "pending"]
Thrown(e) == [kind |-> "thrown", err |-> e]
Rejected(e) == [kind |-> "rejected", err |-> e]
Resolved(v) == [kind |-> "resolved", value |-> v]
CalledBack(e, v) == [kind |-> "callback", err |-> e, value |-> v]

IdleCall ==
    [op |-> "none", args |-> Undefined, pc |-> "idle", uuid |-> Undefined,
     outcome |-> Pending, reqs |-> <<>>, delivered |-> <<>>]

Init ==
    /\ calls = [c \in CallIds |-> IdleCall]
    /\ idCounter = 0

Request(prim, endpoint, params) == [prim |-> prim, endpoint |-> endpoint, params |-> params]
Delivery(e, v) == [err |-> e, value |-> v]

\* JSON.stringify: the value wrapped as JSON text, never the value itself.
JSONStringify(v) == [t |-> "json", text |-> v]

\* ------------------------------------------------- lib/ and models/ helpers
\* new SnapOptions(recipients, text, duration): refuses a duration <= 0.
SnapOptions(recipients, text, duration) ==
    IF duration <= 0
    THEN [threw |-> TRUE, err |-> Err("InvalidArgument")]
    ELSE [threw |-> FALSE,
          value |-> [recipients |-> recipients, text |-> text, timer |-> duration,
                     cameraFrontFacing |-> Undefined, isReply |-> Undefined]]

\* StringUtils.mediaIdentifier(username): the n-th identifier handed out, fresh.
mediaIdentifier(username, n) == [t |-> "mediaId", user |-> username, n |-> n]

\* StringUtils.timestampFrom(date): the wire format of a point in time.
timestampFrom(date) == [t |-> "timestamp", of |-> date]

\* new SKLocation(result)
SKLocation(result) == [t |-> "SKLocation", from |-> result]

\* ------------------------------------------------------------ _uploadSnap
UploadParams(blob, uuid) ==
    [media_id |-> uuid,
     type |-> IF blob.isImage THEN "MediaKind.Image" ELSE "MediaKind.Video",
     data |-> blob.data,
     zipped |-> Num(0),
     features_map |-> "{}",
     username |-> Self.client.username]

\* The synchronous part of _uploadSnap(blob, cb): the identifier is drawn
\* first, then the blob is tested, then the upload is issued.
UploadSnapBegin(blob, n) ==
    LET uuid == mediaIdentifier(Self.client.username, n + 1)
    IN  IF blob.t # "SKBlob"
        THEN [threw |-> TRUE, err |-> Err("InvalidArgument"), uuid |-> uuid, reqs |-> <<>>]
        ELSE [threw |-> FALSE, err |-> Null, uuid |-> uuid,
              reqs |-> <<Request("postCustom", "snaps.upload", UploadParams(blob, uuid))>>]

\* What _uploadSnap's request callback passes on as the media identifier.
LastGeneratedMediaID(c) == mediaIdentifier(Self.client.username, idCounter)

UploadCallbackMediaID(c) == calls[c].uuid

\* _uploadSnap's request callback: cb(err) or cb(null, uuid).
UploadCallback(c, err) ==
    IF Truthy(err)
    THEN [err |-> err, mediaID |-> Undefined]
    ELSE [err |-> Null, mediaID |-> UploadCallbackMediaID(c)]

\* --------------------------------------------------------- sendSnapCustom
SendParams(opts, mediaID) ==
    [camera_front_facing |-> Truthy(opts.cameraFrontFacing),
     country_code |-> Self.client.session.countryCode,
     media_id |-> mediaID,
     recipients |-> JSONStringify(opts.recipients),
     recipient_ids |-> JSONStringify(opts.recipients),
     reply |-> Truthy(opts.isReply),
     time |-> Num(opts.timer),
     zipped |-> Num(0),
     username |-> Self.client.username]

\* sendSnapCustom(blob, opts): the promise executor up to the upload request.
\* A throw inside the executor rejects the promise.
SendSnapCustomBegin(op, args, blob, opts) ==
    LET up == UploadSnapBegin(blob, idCounter)
    IN  [op |-> op, args |-> args, uuid |-> up.uuid, delivered |-> <<>>,
         reqs |-> up.reqs,
         pc |-> IF up.threw THEN "done" ELSE "upload",
         outcome |-> IF up.threw THEN Rejected(up.err) ELSE Pending]

\* The callback sendSnapCustom gives _uploadSnap, with the return after reject lost.
OnUploadedNoReturn(call, err, mediaID) ==
    [call EXCEPT
       !.pc = IF Truthy(err) THEN "done" ELSE "send",
       !.outcome = IF Truthy(err) THEN Rejected(err) ELSE Pending,
       !.reqs = Append(@, Request("post", "snaps.send", SendParams(call.args.opts, mediaID)))]

\* The callback sendSnapCustom gives _uploadSnap.
OnUploaded(call, err, mediaID) ==
    IF Truthy(err)
    THEN [call EXCEPT !.pc = "done", !.outcome = Rejected(err)]
    ELSE [call EXCEPT
            !.pc = "send",
            !.reqs = Append(@, Request("post", "snaps.send",
                                       SendParams(call.args.opts, mediaID)))]

\* The send post's callback, resolving whatever the error argument is.
OnSentIgnoreError(call, err, result) ==
    [call EXCEPT !.pc = "done", !.outcome = Resolved(result)]

\* The send post's callback.
OnSent(call, err, result) ==
    IF Truthy(err)
    THEN [call EXCEPT !.pc = "done", !.outcome = Rejected(err)]
    ELSE [call EXCEPT !.pc = "done", !.outcome = Resolved(result)]

Opts(timer) ==
    [recipients |-> Recipients, text |-> "hi", timer |-> timer,
     cameraFrontFacing |-> Undefined, isReply |-> Undefined]

\* ----------------------------------------------------------------- actions
SendSnap(c) ==
    /\ calls[c].pc = "idle"
    /\ \E blob \in Blobs, duration \in Durations :
         LET args == [blob |-> blob, duration |-> duration]
             so == SnapOptions(Recipients, "hi", duration)
         IN  IF so.threw
             THEN /\ calls' = [calls EXCEPT ![c] =
                                 [IdleCall EXCEPT !.op = "sendSnap", !.args = args,
                                                  !.pc = "done", !.outcome = Thrown(so.err)]]
                  /\ UNCHANGED idCounter
             ELSE /\ calls' = [calls EXCEPT ![c] =
                                 SendSnapCustomBegin("sendSnap",
                                                     [blob |-> blob, duration |-> duration, opts |-> so.value],
                                                     blob, so.value)]
                  /\ idCounter' = idCounter + 1

SendSnapCustom(c) ==
    /\ calls[c].pc = "idle"
    /\ \E blob \in Blobs, timer \in Timers :
         /\ calls' = [calls EXCEPT ![c] =
                        SendSnapCustomBegin("sendSnapCustom",
                                            [blob |-> blob, duration |-> timer, opts |-> Opts(timer)],
                                            blob, Opts(timer))]
         /\ idCounter' = idCounter + 1

UploadDone(c) ==
    /\ calls[c].pc = "upload"
    /\ \E err \in {Null} \cup TransportErrors :
         LET cb == UploadCallback(c, err)
             call == [calls[c] EXCEPT !.delivered = Append(@, Delivery(err, Undefined))]
         IN  calls' = [calls EXCEPT ![c] = OnUploaded(call, cb.err, cb.mediaID)]
    /\ UNCHANGED idCounter

SendDone(c) ==
    /\ calls[c].pc = "send"
    /\ \E err \in {Null} \cup TransportErrors, result \in {Undefined} \cup Payloads :
         /\ (Truthy(err) <=> result = Undefined)
         /\ LET call == [calls[c] EXCEPT !.delivered = Append(@, Delivery(err, result))]
            IN  calls' = [calls EXCEPT ![c] = OnSent(call, err, result)]
    /\ UNCHANGED idCounter

\* -------------------------------------------------------- markSnapsViewed
\* The length test of markSnapsViewed with its second comparison lost.
LengthsMismatchFirstPairOnly(snaps, times, secondsViewed) ==
    Len(snaps) # Len(times)

\* snaps.length !== times.length || times.length !== secondsViewed.length
LengthsMismatch(snaps, times, secondsViewed) ==
    Len(snaps) # Len(times) \/ Len(times) # Len(secondsViewed)

\* The json map built by snaps.forEach: a later index overwrites an earlier
\* one that has the same identifier.
ViewRecords(snaps, times, secondsViewed) ==
    [id \in {snaps[i].identifier : i \in 1..Len(snaps)} |->
       LET last == CHOOSE i \in 1..Len(snaps) :
                      /\ snaps[i].identifier = id
                      /\ \A j \in 1..Len(snaps) : snaps[j].identifier = id => j <= i
       IN  [t |-> timestampFrom(times[last]), sv |-> secondsViewed[last]]]

\* markSnapsViewed(snaps, times, secondsViewed, cb), up to its return.  The
\* arguments of client.post are evaluated before the post is made, and
\* self.session is read from the facade, which has no such property.
MarkSnapsViewedBegin(op, args, snaps, times, secondsViewed) ==
    LET base == [IdleCall EXCEPT !.op = op, !.args = args]
    IN  IF LengthsMismatch(snaps, times, secondsViewed)
        THEN [base EXCEPT !.pc = "done", !.outcome = Thrown(Err("InvalidArgument"))]
        ELSE LET json == ViewRecords(snaps, times, secondsViewed)
                 session == GetField(Self, "session")
             IN  IF session = Undefined
                 THEN [base EXCEPT !.pc = "done", !.outcome = Thrown(Err("TypeError"))]
                 ELSE [base EXCEPT
                         !.pc = "clientcb",
                         !.reqs = <<Request("post", "update.snaps",
                                            [added_friends_timestamp |->
                                               timestampFrom(session.addedFriendsTimestamp),
                                             username |-> Self.client.username,
                                             json |-> JSONStringify(json)])>>]

\* markSnapViewed's arrays with the Date passed bare: it has no length.
MarkSnapViewedArraysBareDate(snap, now, secondsViewed) ==
    [snaps |-> <<snap>>, times |-> <<>>, secondsViewed |-> <<secondsViewed>>]

\* The three arrays markSnapViewed hands to markSnapsViewed.
MarkSnapViewedArrays(snap, now, secondsViewed) ==
    [snaps |-> <<snap>>, times |-> <<now>>, secondsViewed |-> <<secondsViewed>>]

MarkSnapViewed(c) ==
    /\ calls[c].pc = "idle"
    /\ \E id \in SnapIds, sv \in SecondsViewed, now \in Times :
         LET a == MarkSnapViewedArrays(Snap(id), now, sv)
         IN  calls' = [calls EXCEPT ![c] =
                         MarkSnapsViewedBegin("markSnapViewed",
                                              [snap |-> Snap(id), secondsViewed |-> sv, now |-> now],
                                              a.snaps, a.times, a.secondsViewed)]
    /\ UNCHANGED idCounter

MarkSnapsViewed(c) ==
    /\ calls[c].pc = "idle"
    /\ \E n \in 0..MaxLen, m \in 0..MaxLen, k \in 0..MaxLen :
         LET snaps == SampleSnaps(n)
             times == SampleTimes(m)
             svs == SampleSecondsViewed(k)
         IN  calls' = [calls EXCEPT ![c] =
                         MarkSnapsViewedBegin("markSnapsViewed",
                                              [snaps |-> snaps, times |-> times, secondsViewed |-> svs],
                                              snaps, times, svs)]
    /\ UNCHANGED idCounter

\* ------------------------------------------------------ markSnapScreenshot
\* The screenshot event with the raw timestamp, not truncated to an integer.
ScreenshotEventRawTimestamp(snap, timestamp) ==
    [eventName |-> "SNAP_SCREENSHOT", params |-> [id |-> snap.identifier], ts |-> timestamp]

\* The analytics event markSnapScreenshot builds.
ScreenshotEvent(snap, timestamp) ==
    [eventName |-> "SNAP_SCREENSHOT", params |-> [id |-> snap.identifier],
     ts |-> BitOrZero(timestamp)]

\* The snapInfo map markSnapScreenshot builds.
ScreenshotInfo(snap, timestamp, secondsViewed) ==
    [id \in {snap.identifier} |->
       [t |-> BitOrZero(timestamp), sv |-> secondsViewed, c |-> "SnapStatus.Screenshot"]]

MarkSnapScreenshot(c) ==
    /\ calls[c].pc = "idle"
    /\ \E id \in SnapIds, sv \in SecondsViewed, t1 \in Timestamps, t2 \in Timestamps :
         calls' = [calls EXCEPT ![c] =
                     [IdleCall EXCEPT
                        !.op = "markSnapScreenshot",
                        !.args = [snap |-> Snap(id), secondsViewed |-> sv],
                        !.pc = "clientcb",
                        !.reqs = <<[prim |-> "sendEvents",
                                    events |-> <<ScreenshotEvent(Snap(id), t2)>>,
                                    snapInfo |-> ScreenshotInfo(Snap(id), t1, sv)]>>]]
    /\ UNCHANGED idCounter

\* The caller's cb was handed to the client as it is (client.post in
\* markSnapsViewed, client.sendEvents in markSnapScreenshot): the client calls it.
ClientCallback(c) ==
    /\ calls[c].pc = "clientcb"
    /\ \E err \in {Null} \cup TransportErrors, result \in {Undefined} \cup Payloads :
         /\ (Truthy(err) <=> result = Undefined)
         /\ calls' = [calls EXCEPT ![c] =
                        [@ EXCEPT !.pc = "done",
                                  !.delivered = Append(@, Delivery(err, result)),
                                  !.outcome = CalledBack(err, result)]]
    /\ UNCHANGED idCounter

\* ------------------------------------------------------------------ loadSnap
\* loadSnap(snap) -> _loadSnapWithIdentifier(snap.identifier)
LoadSnap(c) ==
    /\ calls[c].pc = "idle"
    /\ \E id \in SnapIds :
         calls' = [calls EXCEPT ![c] =
                     [IdleCall EXCEPT
                        !.op = "loadSnap",
                        !.args = [snap |-> Snap(id)],
                        !.pc = "loadBlob",
                        !.reqs = <<Request("post", "snaps.loadBlob",
                                           [id |-> id, username |-> Self.client.username])>>]]
    /\ UNCHANGED idCounter

\* The loadBlob post's callback: reject, or hand the body to SKBlob.initWithData.
LoadBlobDone(c) ==
    /\ calls[c].pc = "loadBlob"
    /\ \E err \in {Null} \cup TransportErrors, body \in {Undefined} \cup Payloads :
         /\ (Truthy(err) <=> body = Undefined)
         /\ LET call == [calls[c] EXCEPT !.delivered = Append(@, Delivery(err, body))]
            IN  calls' = [calls EXCEPT ![c] =
                            IF Truthy(err)
                            THEN [call EXCEPT !.pc = "done", !.outcome = Rejected(err)]
                            ELSE [call EXCEPT !.pc = "decode"]]
    /\ UNCHANGED idCounter

\* SKBlob.initWithData's callback.
DecodeDone(c) ==
    /\ calls[c].pc = "decode"
    /\ \E err \in {Null, Err("DecodeError")} :
         LET body == calls[c].delivered[1].value
             blob == IF Truthy(err) THEN Undefined ELSE [t |-> "SKBlob", isImage |-> TRUE, data |-> body]
             call == [calls[c] EXCEPT !.delivered = Append(@, Delivery(err, blob))]
         IN  calls' = [calls EXCEPT ![c] =
                         IF Truthy(err)
                         THEN [call EXCEPT !.pc = "done", !.outcome = Rejected(err)]
                         ELSE [call EXCEPT !.pc = "done", !.outcome = Resolved(blob)]]
    /\ UNCHANGED idCounter

\* ---------------------------------------------------- loadFiltersForLocation
LoadFiltersForLocation(c) ==
    /\ calls[c].pc = "idle"
    /\ \E location \in Locations :
         calls' = [calls EXCEPT ![c] =
                     [IdleCall EXCEPT
                        !.op = "loadFiltersForLocation",
                        !.args = [location |-> location],
                        !.pc = "location",
                        !.reqs = <<Request("post", "misc.locationData",
                                           [lat |-> location.lat,
                                            lng |-> location.lng,
                                            screen_width |-> Self.client.screenSize.width,
                                            screen_height |-> Self.client.screenSize.height,
                                            username |-> Self.client.username])>>]]
    /\ UNCHANGED idCounter

\* The location post's callback with the test of the result lost.
OnLocationDataNoResultTest(call, err, result) ==
    IF Truthy(err)
    THEN [call EXCEPT !.pc = "done", !.outcome = Rejected(err)]
    ELSE [call EXCEPT !.pc = "done", !.outcome = Resolved(SKLocation(result))]

\* The location post's callback.
OnLocationData(call, err, result) ==
    IF Truthy(err)
    THEN [call EXCEPT !.pc = "done", !.outcome = Rejected(err)]
    ELSE IF Truthy(result)
         THEN [call EXCEPT !.pc = "done", !.outcome = Resolved(SKLocation(result))]
         ELSE [call EXCEPT !.pc = "done", !.outcome = Rejected(Err("ParseError"))]

LocationDone(c) ==
    /\ calls[c].pc = "location"
    /\ \E err \in {Null} \cup TransportErrors, result \in {Undefined} \cup Results :
         /\ (Truthy(err) <=> result = Undefined)
         /\ LET call == [calls[c] EXCEPT !.delivered = Append(@, Delivery(err, result))]
            IN  calls' = [calls EXCEPT ![c] = OnLocationData(call, err, result)]
    /\ UNCHANGED idCounter

Next ==
    \E c \in CallIds :
       \/ SendSnap(c)
       \/ SendSnapCustom(c)
       \/ MarkSnapViewed(c)
       \/ MarkSnapsViewed(c)
       \/ MarkSnapScreenshot(c)
       \/ LoadSnap(c)
       \/ LoadFiltersForLocation(c)
       \/ UploadDone(c)
       \/ SendDone(c)
       \/ ClientCallback(c)
       \/ LoadBlobDone(c)
       \/ DecodeDone(c)
       \/ LocationDone(c)

Spec == Init /\ [][Next]_vars

\* ================================================================= claims
IsSendCall(c) == calls[c].op \in {"sendSnap", "sendSnapCustom"}

IsPostTo(r, endpoint) == r.prim = "post" /\ r.endpoint = endpoint

IsUpload(r) == r.prim = "postCustom" /\ r.endpoint = "snaps.upload"

PostsTo(c, endpoint) ==
    {i \in 1..Len(calls[c].reqs) : IsPostTo(calls[c].reqs[i], endpoint)}

Uploads(c) == {i \in 1..Len(calls[c].reqs) : IsUpload(calls[c].reqs[i])}

Failed(c) == calls[c].pc = "done" /\ calls[c].outcome.kind \in {"thrown", "rejected"}

\* The upload step of call c failed: _uploadSnap threw, or the upload
\* request called back with an error.
UploadThrew(c) == IsSendCall(c) /\ calls[c].pc = "done" /\ calls[c].reqs = <<>>
                    /\ calls[c].outcome.kind = "rejected"

UploadErrored(c) == IsSendCall(c) /\ Len(calls[c].delivered) >= 1
                      /\ Truthy(calls[c].delivered[1].err)

UploadSucceeded(c) == IsSendCall(c) /\ Len(calls[c].delivered) >= 1
                        /\ ~Truthy(calls[c].delivered[1].err)

\* C1: a sendSnapCustom call whose upload step fails is rejected with exactly
\* the upload's error, and at no time has it issued a post to the send endpoint.
C1_UploadFailureNeverSends ==
    \A c \in CallIds :
       /\ UploadErrored(c) =>
            /\ calls[c].pc = "done"
            /\ calls[c].outcome = Rejected(calls[c].delivered[1].err)
            /\ PostsTo(c, "snaps.send") = {}
       /\ UploadThrew(c) =>
            /\ calls[c].outcome = Rejected(Err("InvalidArgument"))
            /\ PostsTo(c, "snaps.send") = {}

C1_Witness ==
    \E c \in CallIds :
       /\ calls[c].op = "sendSnapCustom"
       /\ UploadErrored(c)
       /\ calls[c].pc = "done"

\* C2: a sendSnap or sendSnapCustom call with a duration d <= 0 fails with
\* InvalidArgument and issues no request at all (no upload, no send post).
C2_NonPositiveDurationRefused ==
    \A c \in CallIds :
       (IsSendCall(c) /\ calls[c].args.duration <= 0) =>
          /\ calls[c].reqs = <<>>
          /\ Failed(c)
          /\ calls[c].outcome.err = Err("InvalidArgument")

\* C3: markSnapsViewed with arrays that do not all have the same length fails
\* with InvalidArgument, and no request has been issued when it fails.
C3_UnequalLengthsRefused ==
    \A c \in CallIds :
       (/\ calls[c].op = "markSnapsViewed"
        /\ ~(/\ Len(calls[c].args.snaps) = Len(calls[c].args.times)
             /\ Len(calls[c].args.times) = Len(calls[c].args.secondsViewed))) =>
          /\ Failed(c)
          /\ calls[c].outcome.err = Err("InvalidArgument")
          /\ calls[c].reqs = <<>>
          /\ calls[c].delivered = <<>>

C3_Witness ==
    \E c \in CallIds :
       /\ calls[c].op = "markSnapsViewed"
       /\ Len(calls[c].args.snaps) = Len(calls[c].args.times)
       /\ Len(calls[c].args.times) # Len(calls[c].args.secondsViewed)
       /\ calls[c].pc = "done"

\* The map the update-snaps post is to carry: for each snap identifier the
\* record {t: timestamp of times[i], sv: secondsViewed[i]}.
ExpectedViewRecords(snaps, times, secondsViewed) ==
    [id \in {snaps[i].identifier : i \in 1..Len(snaps)} |->
       LET i == CHOOSE j \in 1..Len(snaps) : snaps[j].identifier = id
       IN  [t |-> timestampFrom(times[i]), sv |-> secondsViewed[i]]]

\* C4: markSnapsViewed with arrays of equal length issues exactly one post, to
\* the update-snaps endpoint, carrying the session's added-friends timestamp,
\* the username and the JSON map of view records; it does not fail before it.
C4_EqualLengthsPostOnce ==
    \A c \in CallIds :
       (/\ calls[c].op = "markSnapsViewed"
        /\ Len(calls[c].args.snaps) = Len(calls[c].args.times)
        /\ Len(calls[c].args.times) = Len(calls[c].args.secondsViewed)) =>
          /\ Len(calls[c].reqs) = 1
          /\ IsPostTo(calls[c].reqs[1], "update.snaps")
          /\ calls[c].reqs[1].params.username = Client.username
          /\ calls[c].reqs[1].params.added_friends_timestamp =
               timestampFrom(Client.session.addedFriendsTimestamp)
          /\ calls[c].reqs[1].params.json =
               JSONStringify(ExpectedViewRecords(calls[c].args.snaps, calls[c].args.times,
                                                 calls[c].args.secondsViewed))

\* C5: a sendSnapCustom call whose upload succeeded has issued exactly one
\* upload request followed by exactly one send post and nothing else, and it
\* completes with that post's outcome unchanged: resolved with the response
\* payload, or rejected with the post's error.
C5_SendOutcomePassedThrough ==
    \A c \in CallIds :
       UploadSucceeded(c) =>
          /\ Len(calls[c].reqs) = 2
          /\ IsUpload(calls[c].reqs[1])
          /\ IsPostTo(calls[c].reqs[2], "snaps.send")
          /\ Len(calls[c].delivered) <= 2
          /\ Len(calls[c].delivered) = 1 =>
               (calls[c].pc = "send" /\ calls[c].outcome = Pending)
          /\ Len(calls[c].delivered) = 2 =>
               /\ calls[c].pc = "done"
               /\ calls[c].outcome =
                    IF Truthy(calls[c].delivered[2].err)
                    THEN Rejected(calls[c].delivered[2].err)
                    ELSE Resolved(calls[c].delivered[2].value)

C5_Witness ==
    \E c \in CallIds, d \in CallIds :
       /\ UploadSucceeded(c) /\ calls[c].outcome.kind = "resolved"
       /\ calls[c].outcome.value \in Payloads
       /\ UploadSucceeded(d) /\ calls[d].outcome.kind = "rejected"

C7_LoadFiltersThreeWays ==
    /\ Err("ParseError") \notin TransportErrors
    /\ \A c \in CallIds :
          calls[c].op = "loadFiltersForLocation" =>
             /\ Len(calls[c].reqs) = 1
             /\ IsPostTo(calls[c].reqs[1], "misc.locationData")
             /\ Len(calls[c].delivered) <= 1
             /\ calls[c].delivered = <<>> => calls[c].outcome = Pending
             /\ Len(calls[c].delivered) = 1 =>
                  LET d == calls[c].delivered[1]
                  IN  /\ calls[c].pc = "done"
                      /\ calls[c].outcome =
                           IF Truthy(d.err) THEN Rejected(d.err)
                           ELSE IF d.value \in {Null, EmptyString}
                                THEN Rejected(Err("ParseError"))
                                ELSE Resolved(SKLocation(d.value))

C7_Witness ==
    \E c \in CallIds, d \in CallIds :
       /\ calls[c].op = "loadFiltersForLocation"
       /\ calls[c].outcome = Rejected(Err("ParseError"))
       /\ calls[d].op = "loadFiltersForLocation"
       /\ calls[d].outcome.kind = "resolved"

\* C8: markSnapScreenshot makes exactly one call, to the client's sendEvents,
\* and that call carries both the one event {eventName: "SNAP_SCREENSHOT",
\* params: {id}, ts: integer} and the one-entry map id -> {t: integer, sv,
\* c: screenshot status}.
C8_ScreenshotOneCombinedCall ==
    \A c \in CallIds :
       calls[c].op = "markSnapScreenshot" =>
          /\ Len(calls[c].reqs) = 1
          /\ LET r == calls[c].reqs[1]
                 id == calls[c].args.snap.identifier
             IN  /\ r.prim = "sendEvents"
                 /\ Len(r.events) = 1
                 /\ DOMAIN r.events[1] = {"eventName", "params", "ts"}
                 /\ r.events[1].eventName = "SNAP_SCREENSHOT"
                 /\ r.events[1].params = [id |-> id]
                 /\ IsInteger(r.events[1].ts)
                 /\ DOMAIN r.snapInfo = {id}
                 /\ DOMAIN r.snapInfo[id] = {"t", "sv", "c"}
                 /\ IsInteger(r.snapInfo[id].t)
                 /\ r.snapInfo[id].sv = calls[c].args.secondsViewed
                 /\ r.snapInfo[id].c = "SnapStatus.Screenshot"

C8_Witness ==
    \E c \in CallIds :
       /\ calls[c].op = "markSnapScreenshot"
       /\ calls[c].pc = "done"
       /\ calls[c].reqs[1].events[1].ts = Num(2 * 65536 + 5)
       /\ calls[c].reqs[1].snapInfo[calls[c].args.snap.identifier].t.v < 0

\* C9, for the failure it names first: a markSnapsViewed call refused for
\* mismatched array lengths reports the failure through the callback or a
\* rejected promise, never as an exception thrown to the caller.
C9_MismatchReportedAsynchronously ==
    \A c \in CallIds :
       (/\ calls[c].op = "markSnapsViewed"
        /\ calls[c].pc = "done"
        /\ ~(/\ Len(calls[c].args.snaps) = Len(calls[c].args.times)
             /\ Len(calls[c].args.times) = Len(calls[c].args.secondsViewed))) =>
          calls[c].outcome.kind \in {"rejected", "callback"}

\* C10: under any interleaving of sendSnapCustom calls, a call's send post is
\* issued only after its own upload succeeded, carries the media identifier
\* the call generated and put in its own upload request, and never carries
\* the identifier of another call's upload.
C10_SendCarriesOwnMediaId ==
    \A c \in CallIds :
       \A i \in PostsTo(c, "snaps.send") :
          /\ UploadSucceeded(c)
          /\ Uploads(c) = {1}
          /\ i > 1
          /\ calls[c].reqs[1].params.media_id = calls[c].uuid
          /\ calls[c].reqs[i].params.media_id = calls[c].uuid
          /\ \A d \in CallIds \ {c} :
                \A j \in Uploads(d) :
                   calls[d].reqs[j].params.media_id # calls[c].reqs[i].params.media_id

C10_Witness ==
    /\ calls[1].pc = "upload"
    /\ calls[2].pc = "send"
    /\ calls[1].uuid.n < calls[2].uuid.n

====
